---- MODULE Spec2Model ----
(***************************************************************************)
(* Model of app.py: the Streamlit dashboard of the California traffic      *)
(* collisions data set.  One analysis-page run is a synchronous            *)
(* load -> filter -> (fetch) -> render pass for each of three views; the   *)
(* loader is memoized by the st.cache decorator.                           *)
(*                                                                         *)
(* Text is a sequence of one-character strings, so that formatting         *)
(* (str(), astype(str)) and parsing (read_csv's type inference) are        *)
(* computed and not assumed.  A cell of a loaded table is a record         *)
(* [t, n, s]: t = "int" with value n, or t = "str" with text s.            *)
(***************************************************************************)
EXTENDS Integers, Sequences, FiniteSets, TLC

VARIABLES storage, cache, reads, lastCall, first, pc, year, collisions,
          counties, shown, log, error

vars == <<storage, cache, reads, lastCall, first, pc, year, collisions,
          counties, shown, log, error>>

----------------------------------------------------------------------------
(* Bounds *)

\* total number of data rows held by the three source files together
MaxRows == 2

\* how many of the literal years of year_list the selector is tried with
MaxYearsTried == 2

----------------------------------------------------------------------------
(* Text and cells *)

DigitChars == <<"0", "1", "2", "3", "4", "5", "6", "7", "8", "9">>

IsDigit(c) == \E i \in 1..10 : DigitChars[i] = c

DigitVal(c) == (CHOOSE i \in 1..10 : DigitChars[i] = c) - 1

IntCell(n) == [t |-> "int", n |-> n, s |-> <<>>]

StrCell(s) == [t |-> "str", n |-> 0, s |-> s]

\* the text read_csv's parser accepts as an integer
IsIntText(s) == Len(s) > 0 /\ \A i \in 1..Len(s) : IsDigit(s[i])

RECURSIVE ParseInt(_)
ParseInt(s) ==
    IF Len(s) = 0 THEN 0
    ELSE 10 * ParseInt(SubSeq(s, 1, Len(s) - 1)) + DigitVal(s[Len(s)])

\* decimal text of a non-negative integer
RECURSIVE IntToText(_)
IntToText(n) ==
    IF n < 10 THEN <<DigitChars[n + 1]>>
    ELSE IntToText(n \div 10) \o <<DigitChars[(n % 10) + 1]>>

\* Python's str(): formats an int, leaves a string alone
str(v) == IF v.t = "int" THEN StrCell(IntToText(v.n)) ELSE v

----------------------------------------------------------------------------
(* Source files *)

AllText == <<"a", "l", "l">>

\* sample raw cells of the three extracts
YearTexts == {AllText, <<"2", "0", "0", "1">>}

FipsTexts == {<<"6", "0", "0", "1">>, <<"6", "0", "1">>, <<"0", "6", "0", "3", "7">>}

HourTexts == {<<"0">>, <<"2", "3">>}

DayTexts == {<<"S", "a", "t">>, <<"6">>}

KilledTexts == {<<"4">>}

ChoroplethRows == [year_option : YearTexts, FIPS : FipsTexts, killed_victims : KilledTexts]

HourlyRows == [year_option : YearTexts, collision_hour : HourTexts, killed_victims : KilledTexts]

DayRows == [year_option : YearTexts, collision_day : DayTexts, killed_victims : KilledTexts]

FileNames == {"choropleth.csv", "hourly.csv", "day_of_week.csv"}

Missing == [exists |-> FALSE, rows |-> <<>>]

\* the possible states of a file of n rows; an absent file has none
FilesOf(R, n) ==
    {[exists |-> TRUE, rows |-> r] : r \in [1..n -> R]}
        \cup (IF n = 0 THEN {Missing} ELSE {})

----------------------------------------------------------------------------
(* pandas *)

\* type inference of read_csv for one column: int64 when every cell parses
\* as an integer, object (text) otherwise
InferInt(rows, col) ==
    Len(rows) > 0 /\ \A i \in 1..Len(rows) : IsIntText(rows[i][col])

ParseCell(rows, col, i) ==
    IF InferInt(rows, col) THEN IntCell(ParseInt(rows[i][col]))
    ELSE StrCell(rows[i][col])

read_csv(rows) ==
    [i \in 1..Len(rows) |->
        [col \in DOMAIN rows[i] |-> ParseCell(rows, col, i)]]

EmptyOnMissing(file) ==
    [ok |-> TRUE, df |-> IF storage[file].exists THEN read_csv(storage[file].rows) ELSE <<>>]

\* pd.read_csv(source_file): raises when the file is not there
ReadFile(file) ==
    [ok |-> storage[file].exists,
     df |-> IF storage[file].exists THEN read_csv(storage[file].rows) ELSE <<>>]

\* Series == value: element-wise; values of different types are unequal
SeriesEq(df, col, v) == [i \in 1..Len(df) |-> df[i][col] = v]

\* df[mask]: the rows whose mask entry is True, in order
RECURSIVE BoolIndex(_, _)
BoolIndex(df, mask) ==
    IF Len(df) = 0 THEN <<>>
    ELSE LET rest == BoolIndex(Tail(df), Tail(mask))
         IN  IF Head(mask) THEN <<Head(df)>> \o rest ELSE rest

----------------------------------------------------------------------------
(* app.py *)

TypeArgs == {"choropleth", "hourly", "day_of_week", "None", "other"}

Views == <<"choropleth", "hourly", "day_of_week">>

StaticPages == {"The Data", "Predicting Injured Victims",
                "Conclusions and Recommendations", "Author"}

FirstYear == 2001

LastYear == 2021

AllCell == StrCell(AllText)

year_list ==
    {y \in FirstYear..LastYear : y < FirstYear + MaxYearsTried}

year_options == {AllCell} \cup {IntCell(y) : y \in year_list}

AlwaysDayOfWeek(type) == "day_of_week.csv"

\* load_data: "Specify location"
SourceFile(type) ==
    IF type = "choropleth" THEN "choropleth.csv"
    ELSE IF type = "hourly" THEN "hourly.csv"
    ELSE "day_of_week.csv"

\* collisions["FIPS"] = "0" + collisions["FIPS"].astype(str)
EditFIPS(df) ==
    [i \in 1..Len(df) |->
        [df[i] EXCEPT !.FIPS = StrCell(<<"0">> \o str(df[i].FIPS).s)]]

\* the body of load_data, run on a cache miss
load_data(type) ==
    LET r == ReadFile(SourceFile(type))
    IN  [ok |-> r.ok,
         df |-> IF r.ok /\ type = "choropleth" THEN EditFIPS(r.df) ELSE r.df]

NeverHit(type) == FALSE

\* st.cache: is there a memoized result for this argument
CacheHit(type) == cache[type].hit

RepadReturn(type, df) == IF type = "choropleth" THEN EditFIPS(df) ELSE df

\* st.cache: what a hit hands back is the memoized object itself
CacheReturn(type, df) == df

FilterPassAll(df, y) ==
    IF y = AllCell THEN df
    ELSE BoolIndex(df, SeriesEq(df, "year_option", str(y)))

FilterNoStr(df, y) == BoolIndex(df, SeriesEq(df, "year_option", y))

\* collisions[collisions["year_option"] == str(year)]
ApplyFilter(df, y) == BoolIndex(df, SeriesEq(df, "year_option", str(y)))

WriteBack(c, type, filtered) == [c EXCEPT ![type].df = filtered]

\* collisions = collisions[...] rebinds the local name to a new table; the
\* memoized table is not written
RebindLocal(c, type, filtered) == c

Pc(view, step) == [view |-> view, step |-> step]

FetchBeforeFilter(view, step) ==
    IF view = "choropleth" THEN
        IF step = "load" THEN Pc(view, "fetch")
        ELSE IF step = "fetch" THEN Pc(view, "filter")
        ELSE IF step = "filter" THEN Pc(view, "render")
        ELSE Pc("hourly", "load")
    ELSE IF step = "load" THEN Pc(view, "filter")
    ELSE IF step = "filter" THEN Pc(view, "render")
    ELSE IF view = "hourly" THEN Pc("day_of_week", "load")
    ELSE Pc("none", "done")

\* program order of descriptive_analytics and the three generate_* functions
NextPc(view, step) ==
    IF step = "load" THEN Pc(view, "filter")
    ELSE IF step = "filter" THEN
        IF view = "choropleth" THEN Pc(view, "fetch") ELSE Pc(view, "render")
    ELSE IF step = "fetch" THEN Pc(view, "render")
    ELSE IF view = "choropleth" THEN Pc("hourly", "load")
    ELSE IF view = "hourly" THEN Pc("day_of_week", "load")
    ELSE Pc("none", "done")

NoEntry == [hit |-> FALSE, df |-> <<>>]

Init ==
    /\ \E na \in 0..MaxRows :
         \E nb \in 0..(MaxRows - na) :
           \E nc \in 0..(MaxRows - na - nb) :
             \E fa \in FilesOf(ChoroplethRows, na), fb \in FilesOf(HourlyRows, nb),
                fc \in FilesOf(DayRows, nc) :
                storage = [f \in FileNames |->
                             IF f = "choropleth.csv" THEN fa
                             ELSE IF f = "hourly.csv" THEN fb ELSE fc]
    /\ cache = [a \in TypeArgs |-> NoEntry]
    /\ reads = [f \in FileNames |-> 0]
    /\ lastCall = "none"
    /\ first = [a \in TypeArgs |-> NoEntry]
    /\ pc = Pc("none", "idle")
    /\ year = AllCell
    /\ collisions = <<>>
    /\ counties = FALSE
    /\ shown = <<>>
    /\ log = <<>>
    /\ error = "none"

\* the script is between two runs
AtRest == pc.step \in {"idle", "done", "fault", "static", "returned"}

\* one call of the decorated load_data(type=type); the caller goes on at
\* okpc, or the exception ends the run
Call_load_data(type, okpc) ==
    IF CacheHit(type) THEN
        /\ collisions' = CacheReturn(type, cache[type].df)
        /\ lastCall' = "hit"
        /\ pc' = okpc
        /\ UNCHANGED <<cache, reads, first, error>>
    ELSE
        LET r == load_data(type)
        IN  IF r.ok THEN
                /\ collisions' = r.df
                /\ cache' = [cache EXCEPT ![type] = [hit |-> TRUE, df |-> r.df]]
                /\ reads' = [reads EXCEPT ![SourceFile(type)] = @ + 1]
                /\ first' = IF first[type].hit THEN first
                            ELSE [first EXCEPT ![type] = [hit |-> TRUE, df |-> r.df]]
                /\ lastCall' = "miss"
                /\ pc' = okpc
                /\ UNCHANGED error
            ELSE
                /\ collisions' = <<>>
                /\ lastCall' = "raise"
                /\ error' = "FileNotFoundError"
                /\ pc' = Pc(type, "fault")
                /\ UNCHANGED <<cache, reads, first>>

\* selection == "Analyzing Fatal Collisions": descriptive_analytics() up to
\* the selectbox
Request(y) ==
    /\ AtRest
    /\ year' = y
    /\ pc' = Pc("choropleth", "load")
    /\ collisions' = <<>>
    /\ counties' = FALSE
    /\ shown' = <<>>
    /\ log' = <<>>
    /\ error' = "none"
    /\ lastCall' = "none"
    /\ UNCHANGED <<storage, cache, reads, first>>

\* generate_*: "Load the data"
Load ==
    /\ pc.step = "load"
    /\ log' = Append(log, [view |-> pc.view, step |-> "load", year |-> year])
    /\ Call_load_data(pc.view, NextPc(pc.view, "load"))
    /\ UNCHANGED <<storage, year, counties, shown>>

\* generate_*: "Apply filter"
Filter ==
    /\ pc.step = "filter"
    /\ log' = Append(log, [view |-> pc.view, step |-> "filter", year |-> year])
    /\ collisions' = ApplyFilter(collisions, year)
    /\ cache' = RebindLocal(cache, pc.view, ApplyFilter(collisions, year))
    /\ pc' = NextPc(pc.view, "filter")
    /\ UNCHANGED <<storage, reads, lastCall, first, year, counties, shown, error>>

\* generate_choropleth_map: urlopen(...) and json.load
Fetch(ok) ==
    /\ pc.step = "fetch"
    /\ log' = Append(log, [view |-> pc.view, step |-> "fetch", year |-> year])
    /\ IF ok THEN
          /\ counties' = TRUE
          /\ pc' = NextPc(pc.view, "fetch")
          /\ UNCHANGED error
       ELSE
          /\ error' = "URLError"
          /\ pc' = Pc(pc.view, "fault")
          /\ UNCHANGED counties
    /\ UNCHANGED <<storage, cache, reads, lastCall, first, year, collisions, shown>>

\* generate_*: build the figure and show it
Render ==
    /\ pc.step = "render"
    /\ log' = Append(log, [view |-> pc.view, step |-> "render", year |-> year])
    /\ shown' = Append(shown, [view |-> pc.view, data |-> collisions,
                               geojson |-> pc.view = "choropleth" /\ counties])
    /\ pc' = NextPc(pc.view, "render")
    /\ UNCHANGED <<storage, cache, reads, lastCall, first, year, collisions,
                   counties, error>>

\* the other branches of the page selection: static text and images
StaticPage(page) ==
    /\ AtRest
    /\ pc' = Pc(page, "static")
    /\ collisions' = <<>>
    /\ counties' = FALSE
    /\ shown' = <<>>
    /\ log' = <<>>
    /\ error' = "none"
    /\ lastCall' = "none"
    /\ UNCHANGED <<storage, cache, reads, first, year>>

Next ==
    \/ \E y \in year_options : Request(y)
    \/ Load
    \/ Filter
    \/ \E ok \in BOOLEAN : Fetch(ok)
    \/ Render
    \/ \E page \in StaticPages : StaticPage(page)

Spec == Init /\ [][Next]_vars

\* load_data called on its own with any argument, the default included
CallLoadData(type) ==
    /\ AtRest
    /\ error' = "none"
    /\ Call_load_data(type, Pc(type, "returned"))
    /\ UNCHANGED <<storage, year, counties, shown, log>>

NextLoad == \E type \in TypeArgs : CallLoadData(type)

SpecLoad == Init /\ [][NextLoad]_vars

----------------------------------------------------------------------------
(* Properties *)

Kinds == {"choropleth", "hourly", "day_of_week"}

\* the step the run executed last
LastStep == IF Len(log) = 0 THEN [view |-> "none", step |-> "none", year |-> year]
            ELSE log[Len(log)]

\* load_data(type=v) has just returned to generate_*
JustLoaded(v) == LastStep.view = v /\ LastStep.step = "load" /\ pc.step # "fault"

\* the filter statement of view v has just run
JustFiltered(v) == LastStep.view = v /\ LastStep.step = "filter"

\* positions of the records of df whose year field is target
Matching(df, target) == {i \in 1..Len(df) : df[i].year_option = target}

\* the j-th smallest element of a set of positions
Nth(S, j) == CHOOSE i \in S : Cardinality({k \in S : k <= i}) = j

\* out holds exactly the records of df whose year field is target, in df's order
IsSelection(out, df, target) ==
    /\ Len(out) = Cardinality(Matching(df, target))
    /\ \A j \in 1..Len(out) : out[j] = df[Nth(Matching(df, target), j)]

\* the string form of a selector year, written out digit by digit
YearText(n) ==
    <<DigitChars[(n \div 1000) + 1], DigitChars[((n \div 100) % 10) + 1],
      DigitChars[((n \div 10) % 10) + 1], DigitChars[(n % 10) + 1]>>

C3_FixedWidth ==
    cache["choropleth"].hit =>
        \A i, j \in 1..Len(cache["choropleth"].df) :
            /\ cache["choropleth"].df[i].FIPS.t = "str"
            /\ Head(cache["choropleth"].df[i].FIPS.s) = "0"
            /\ Len(cache["choropleth"].df[i].FIPS.s)
                 = Len(cache["choropleth"].df[j].FIPS.s)

\* C4: the source file of each kind is read at most once: exactly once when
\* the kind's record set is memoized, never before, and a call that finds the
\* memoized set reads nothing.
C4_ReadAtMostOnce ==
    \A v \in Kinds :
        /\ reads[SourceFile(v)] = IF cache[v].hit THEN 1 ELSE 0
        /\ (JustLoaded(v) /\ lastCall = "hit") => reads[SourceFile(v)] = 1

\* a later call that was served from the memoized record set
C4_Witness ==
    \E v \in Kinds : JustLoaded(v) /\ lastCall = "hit" /\ reads[SourceFile(v)] = 1

\* text of digits without its leading zeros (one digit is kept)
RECURSIVE StripZeros(_)
StripZeros(s) ==
    IF Len(s) > 1 /\ Head(s) = "0" THEN StripZeros(Tail(s)) ELSE s

\* C5: every load_data call of a kind returns the record set its first call
\* returned, and each choropleth identifier returned is the source identifier
\* with one "0" put in front, however often the set is loaded.
C5_LoadIdempotent ==
    \A v \in Kinds :
        JustLoaded(v) =>
            /\ first[v].hit
            /\ collisions = first[v].df
            /\ v = "choropleth" =>
                 /\ Len(collisions) = Len(storage["choropleth.csv"].rows)
                 /\ \A i \in 1..Len(collisions) :
                      collisions[i].FIPS =
                        StrCell(<<"0">> \o StripZeros(storage["choropleth.csv"].rows[i].FIPS))

\* a second load of a non-empty choropleth set
C5_Witness ==
    /\ JustLoaded("choropleth") /\ lastCall = "hit"
    /\ Len(collisions) > 0

\* C6: once memoized, a record set is never changed by any step of any view.
C6_CacheReadOnly ==
    [][\A a \in TypeArgs : cache[a].hit => cache'[a] = cache[a]]_vars

\* a filter that dropped records while the memoized set kept them
C6_Witness ==
    \E v \in Kinds :
        /\ JustFiltered(v) /\ cache[v].hit
        /\ Len(collisions) < Len(cache[v].df)

\* a chart of view v is on the display
Rendered(v) == \E i \in 1..Len(shown) : shown[i].view = v

\* C7 (as stated): when the geometry fetch fails, the hourly and the
\* day-of-week charts of that request are still rendered.
C7_OtherViewsRendered ==
    (error = "URLError" /\ storage["hourly.csv"].exists
        /\ storage["day_of_week.csv"].exists)
      => (Rendered("hourly") /\ Rendered("day_of_week"))

\* C8: a missing source file makes the load of its kind raise: the run ends
\* at that load with the error, no chart of the view is rendered, and the
\* kind's record set is not memoized.
C8_MissingFileFails ==
    \A v \in Kinds :
        ~storage[SourceFile(v)].exists =>
            /\ ~cache[v].hit
            /\ ~Rendered(v)
            /\ (\E i \in 1..Len(log) : log[i].view = v /\ log[i].step = "load") =>
                 /\ LastStep.view = v /\ LastStep.step = "load"
                 /\ pc = Pc(v, "fault")
                 /\ error = "FileNotFoundError"
                 /\ lastCall = "raise"

\* the hourly load failed after the choropleth map was shown
C8_Witness ==
    /\ pc = Pc("hourly", "fault") /\ error = "FileNotFoundError"
    /\ Rendered("choropleth")

\* the steps of one complete analysis-page run with selector y
ExpectedLog(y) ==
    << [view |-> "choropleth", step |-> "load", year |-> y],
       [view |-> "choropleth", step |-> "filter", year |-> y],
       [view |-> "choropleth", step |-> "fetch", year |-> y],
       [view |-> "choropleth", step |-> "render", year |-> y],
       [view |-> "hourly", step |-> "load", year |-> y],
       [view |-> "hourly", step |-> "filter", year |-> y],
       [view |-> "hourly", step |-> "render", year |-> y],
       [view |-> "day_of_week", step |-> "load", year |-> y],
       [view |-> "day_of_week", step |-> "filter", year |-> y],
       [view |-> "day_of_week", step |-> "render", year |-> y] >>

\* C9: the steps of a run are always an initial part of load, filter, fetch,
\* render for the choropleth map, then load, filter, render for the hourly
\* and for the day-of-week chart, all with the one selected year; a run that
\* completes has executed all of them, the fetch exactly once.
C9_PassOrder ==
    /\ Len(log) <= Len(ExpectedLog(year))
    /\ log = SubSeq(ExpectedLog(year), 1, Len(log))
    /\ pc.step = "done" =>
         /\ log = ExpectedLog(year)
         /\ Cardinality({i \in 1..Len(log) : log[i].step = "fetch"}) = 1
         /\ [i \in 1..Len(shown) |-> shown[i].view] = Views

\* a completed run with a literal year
C9_Witness == pc.step = "done" /\ year.t = "int" /\ Len(shown) = 3

====
